---- MODULE Spec2Model ----
(***************************************************************************)
(* Model of the XiocaAPI client library (src/src/XiocaAPI/__init__.py):    *)
(* the sync client XiocaAPI and the async client AsyncXiocaAPI, their      *)
(* construction, the resource handlers, the request executor _request,     *)
(* the lazily created aiohttp session, close() and the async-with block.   *)
(*                                                                         *)
(* A coroutine runs atomically between two awaits that suspend; one action *)
(* of the model is one such stretch of code.                               *)
(***************************************************************************)
EXTENDS Integers, Sequences, FiniteSets, TLC

VARIABLES
    variant,    \* "sync" (XiocaAPI) or "async" (AsyncXiocaAPI)
    env,        \* os.environ.get("XIOCA_API_KEY"): None or Some(string)
    client,     \* the constructed object, or the error __init__ raised
    session,    \* self._session: NoSession (None) or a session id
    created,    \* number of transport sessions created so far (ids 1..created)
    closed,     \* ids of the sessions whose .closed is True
    task,       \* per caller: position in a handler call, its local `session`
    closer,     \* the sessions on which a close() coroutine is suspended
    block,      \* position of an `async with client:` block
    pending,    \* the error raised inside the block ("" when none)
    caught,     \* the error that reached the caller of the block ("" when none)
    last        \* the last event at the library's boundary

vars == <<variant, env, client, session, created, closed, task, closer,
          block, pending, caught, last>>

----------------------------------------------------------------------------
(* Bounds *)

MaxSessions == 3
NumTasks == 2

Tasks == 1..NumTasks

----------------------------------------------------------------------------
(* Optional[str] *)

None == <<>>
Some(s) == <<s>>

\* Python truthiness of an Optional[str]: None and "" are falsy.
Truthy(v) == v # None /\ v[1] # ""

NoSession == 0

----------------------------------------------------------------------------
(* Input domains *)

KeyArgs == {None, Some(""), Some("k_arg")}
EnvValues == {None, Some(""), Some("k_env")}

Models == {"m1", "m2"}
Prompts == {"draw a cat", "p2"}

UserMsg(text) == [role |-> "user", content |-> text]

MessageLists ==
    { <<UserMsg("hi")>>,
      <<[role |-> "system", content |-> "be brief"], UserMsg("hi")>> }

EmptyDict == [k \in {} |-> 0]

\* **kwargs of ChatHandler.create: any names except model and messages.
ChatKwargs == { EmptyDict, [temperature |-> 1] }

\* **kwargs of ImageHandler.generate: any names except model and prompt.
ImageKwargs ==
    { EmptyDict,
      [temperature |-> 1],
      [messages |-> <<UserMsg("other")>>] }

\* HTTP statuses a server can answer with (http.client accepts 100..999).
Statuses == {200, 201, 302, 304, 400, 401, 403, 404, 429, 500, 503, 600}

\* Response bodies.  fmt: "json" (JSON content type, well-formed),
\* "badjson" (JSON content type, malformed), "html" (another content type).
\* For a JSON body: the kind of the field id, of the field created, and the
\* value of choices[0].message.role.
Body(fmt, id, cr, role) == [fmt |-> fmt, id |-> id, created |-> cr, role |-> role]

GoodBody == Body("json", "str", "int", "assistant")

Bodies ==
    { GoodBody,
      Body("json", "missing", "int", "assistant"),
      Body("json", "str", "str", "user"),
      Body("json", "str", "numstr", "system"),
      Body("json", "str", "int", "tool"),
      Body("badjson", "-", "-", "-"),
      Body("html", "-", "-", "-") }

NoBody == Body("-", "-", "-", "-")

\* Ways the transport fails without an HTTP response.
TransportFailures == {"dns", "refused", "reset", "timeout", "tls"}

HttpResponse(s, b) == [type |-> "http", status |-> s, body |-> b, failure |-> "-"]
TransportFailure(k) == [type |-> "transport", status |-> 0, body |-> NoBody, failure |-> k]

Responses ==
    { HttpResponse(s, b) : s \in Statuses, b \in Bodies }
        \cup { TransportFailure(k) : k \in TransportFailures }

----------------------------------------------------------------------------
(* Error taxonomy *)

\* class APIError(Exception) and its three subclasses.
APIErrorKinds == {"APIError", "AuthenticationError", "PermissionError", "NotFoundError"}

IsAPIError(cls) == cls \in APIErrorKinds

Returned(data) == [exc |-> "", data |-> data]
Raised(cls) == [exc |-> cls, data |-> NoBody]

----------------------------------------------------------------------------
(* Request executor *)

\* The branch on the status of an HTTP error: 401, 403, 404, anything else.
ErrorForStatusNo403(status) ==
    IF status = 401 THEN "AuthenticationError"
    ELSE IF status = 404 THEN "NotFoundError"
    ELSE "APIError"

ErrorForStatus(status) ==
    IF status = 401 THEN "AuthenticationError"
    ELSE IF status = 403 THEN "PermissionError"
    ELSE IF status = 404 THEN "NotFoundError"
    ELSE "APIError"

\* requests.Response.raise_for_status(): HTTPError for 4xx and 5xx.
SyncRaisesForStatusOnly5xx(status) == 500 <= status /\ status < 600

SyncRaisesForStatus(status) == 400 <= status /\ status < 600

\* aiohttp.ClientResponse.raise_for_status(): ClientResponseError unless status < 400.
AsyncRaisesForStatus(status) == status >= 400

\* What the requests session raises for a transport failure.
SyncTransportExceptions(kind) ==
    CASE kind = "dns"     -> {"ConnectionError"}
      [] kind = "refused" -> {"ConnectionError"}
      [] kind = "reset"   -> {"ConnectionError", "ChunkedEncodingError"}
      [] kind = "timeout" -> {"ConnectTimeout", "ReadTimeout"}
      [] kind = "tls"     -> {"SSLError"}

\* What the aiohttp session raises for a transport failure.  The total
\* timeout of a ClientSession (5 minutes by default) ends the request with
\* asyncio.TimeoutError; a socket-level timeout with ServerTimeoutError.
AsyncTransportExceptions(kind) ==
    CASE kind = "dns"     -> {"ClientConnectorError"}
      [] kind = "refused" -> {"ClientConnectorError"}
      [] kind = "reset"   -> {"ClientOSError", "ServerDisconnectedError"}
      [] kind = "timeout" -> {"ServerTimeoutError", "TimeoutError"}
      [] kind = "tls"     -> {"ClientConnectorSSLError"}

\* except requests.exceptions.RequestException
IsRequestException(cls) ==
    cls \in {"HTTPError", "ConnectionError", "ChunkedEncodingError", "ConnectTimeout",
             "ReadTimeout", "SSLError", "JSONDecodeError"}

\* except aiohttp.ClientResponseError
IsClientResponseError(cls) == cls \in {"ClientResponseError", "ContentTypeError"}

\* except aiohttp.ClientError
IsClientError(cls) ==
    \/ IsClientResponseError(cls)
    \/ cls \in {"ClientConnectorError", "ClientOSError", "ServerDisconnectedError",
                "ServerTimeoutError", "ClientConnectorSSLError"}

\* The except clauses of XiocaAPI._request; an exception of no clause propagates.
SyncCatch(cls, status) ==
    IF cls = "HTTPError" THEN ErrorForStatus(status)
    ELSE IF IsRequestException(cls) THEN "APIError"
    ELSE cls

\* The except clauses of AsyncXiocaAPI._request.
AsyncCatch(cls, status) ==
    IF IsClientResponseError(cls) THEN ErrorForStatus(status)
    ELSE IF IsClientError(cls) THEN "APIError"
    ELSE cls

\* The try block of XiocaAPI._request: request, raise_for_status, json.
\* The set of exceptions it can raise ("" : it returns the decoded body).
SyncTry(resp) ==
    IF resp.type = "transport" THEN SyncTransportExceptions(resp.failure)
    ELSE IF SyncRaisesForStatus(resp.status) THEN {"HTTPError"}
    ELSE IF resp.body.fmt = "json" THEN {""}
    ELSE {"JSONDecodeError"}

\* The try block of AsyncXiocaAPI._request.  response.json() raises
\* ContentTypeError (a ClientResponseError carrying the response's status) for
\* a body of another content type, json.JSONDecodeError for malformed JSON.
AsyncTry(resp) ==
    IF resp.type = "transport" THEN AsyncTransportExceptions(resp.failure)
    ELSE IF AsyncRaisesForStatus(resp.status) THEN {"ClientResponseError"}
    ELSE IF resp.body.fmt = "json" THEN {""}
    ELSE IF resp.body.fmt = "html" THEN {"ContentTypeError"}
    ELSE {"JSONDecodeError"}

\* _request as a whole: the outcomes it can have for a response.
RequestOutcomes(v, resp) ==
    IF v = "sync"
    THEN { IF e = "" THEN Returned(resp.body) ELSE Raised(SyncCatch(e, resp.status))
             : e \in SyncTry(resp) }
    ELSE { IF e = "" THEN Returned(resp.body) ELSE Raised(AsyncCatch(e, resp.status))
             : e \in AsyncTry(resp) }

----------------------------------------------------------------------------
(* Response schema *)

\* APIResponse.model_validate: id is a required str, created a required int
\* (pydantic's default mode also accepts a numeric string), role one of the
\* three literals.
Validates(data) ==
    /\ data.id = "str"
    /\ data.created \in {"int", "numstr"}
    /\ data.role \in {"assistant", "user", "system"}

\* The end of a handler call: what _request raised propagates; what it
\* returned is validated, and pydantic's ValidationError propagates.
HandlerOutcome(raw) ==
    IF raw.exc # "" THEN raw
    ELSE IF Validates(raw.data) THEN raw
    ELSE Raised("ValidationError")

----------------------------------------------------------------------------
(* Resource handlers *)

\* {**a, **b}: the keys of both, b's value where both have the key.
DictMerge(a, b) ==
    [k \in (DOMAIN a) \cup (DOMAIN b) |-> IF k \in DOMAIN b THEN b[k] ELSE a[k]]

\* payload = {"model": model, "messages": messages, **kwargs}
ChatPayload(model, messages, kwargs) ==
    DictMerge([model |-> model, messages |-> messages], kwargs)

\* messages = [{"role": "user", "content": prompt}], then as above.
ImagePayload(model, prompt, kwargs) ==
    DictMerge([model |-> model, messages |-> <<[role |-> "user", content |-> prompt]>>], kwargs)

\* The calls a caller can make: the handler, its arguments, the body it sends.
Calls ==
    { [op |-> "chat", model |-> m, prompt |-> "", kwargs |-> kw,
       payload |-> ChatPayload(m, ms, kw)]
        : m \in Models, ms \in MessageLists, kw \in ChatKwargs }
    \cup
    { [op |-> "images", model |-> m, prompt |-> p, kwargs |-> kw,
       payload |-> ImagePayload(m, p, kw)]
        : m \in Models, p \in Prompts, kw \in ImageKwargs }

----------------------------------------------------------------------------
(* Events at the library's boundary *)

NoCall == [op |-> "-", model |-> "", prompt |-> "", kwargs |-> EmptyDict,
           payload |-> EmptyDict]
NoResponse == [type |-> "-", status |-> 0, body |-> NoBody, failure |-> "-"]

Event(ev, call, sess, resp, raw, out) ==
    [ev |-> ev, call |-> call, sess |-> sess, resp |-> resp, raw |-> raw, out |-> out]

NoEvent == Event("-", NoCall, NoSession, NoResponse, Raised(""), Raised(""))

\* A request body handed to the transport over session sess.
SentEvent(call, sess) == Event("sent", call, sess, NoResponse, Raised(""), Raised(""))

\* A handler call ended: the response, what _request did, what the caller got.
ResultEvent(resp, raw, out) == Event("result", NoCall, NoSession, resp, raw, out)

\* close() ran on session sess (NoSession: it found nothing to close).
CloseEvent(sess) == Event("close", NoCall, sess, NoResponse, Raised(""), Raised(""))

----------------------------------------------------------------------------
(* Construction *)

Unbuilt == [state |-> "unbuilt", arg |-> None, api_key |-> None, error |-> "",
            handlers |-> {}]

\* if api_key is None: api_key = os.environ.get("XIOCA_API_KEY")
ResolveKey(arg, e) == IF arg = None THEN e ELSE arg

\* __init__ of both clients.
Construct ==
    /\ client.state = "unbuilt"
    /\ \E arg \in KeyArgs :
         LET key == ResolveKey(arg, env) IN
         IF ~Truthy(key)
         THEN /\ client' = [state |-> "failed", arg |-> arg, api_key |-> None,
                            error |-> "AuthenticationError", handlers |-> {}]
              /\ UNCHANGED <<session, created>>
         ELSE /\ client' = [state |-> "ready", arg |-> arg, api_key |-> key,
                            error |-> "", handlers |-> {"chat", "images"}]
              /\ IF variant = "sync"
                 THEN session' = created + 1 /\ created' = created + 1
                 ELSE session' = NoSession /\ created' = created
    /\ UNCHANGED <<variant, env, closed, task, closer, block, pending, caught, last>>

----------------------------------------------------------------------------
(* The async session *)

NeedsNewSessionAlways(s, cl) == TRUE

NeedsNewSessionOnlyNone(s, cl) == s = NoSession

\* if self._session is None or self._session.closed
NeedsNewSession(s, cl) == s = NoSession \/ s \in cl

\* if self._session and not self._session.closed
CloseNeeded(s, cl) == s # NoSession /\ s \notin cl

SessionCloseNothing(cl, s) == cl

\* await self._session.close(): the session's closed flag is set before
\* the call first suspends.
SessionClose(cl, s) == cl \cup {s}

----------------------------------------------------------------------------
(* Handler calls *)

Idle == [pc |-> "idle", sess |-> NoSession, res |-> "-"]

\* A handler call of the async client up to its first suspension: the payload
\* is shaped, _request runs _get_session (no await inside suspends) and hands
\* the request to the session.  calls: the calls the caller chooses from.
AsyncSend(t, calls) ==
    /\ variant = "async"
    /\ client.state = "ready"
    /\ task[t].pc # "sent"
    /\ NeedsNewSession(session, closed) => created < MaxSessions
    /\ session' = IF NeedsNewSession(session, closed) THEN created + 1 ELSE session
    /\ created' = IF NeedsNewSession(session, closed) THEN created + 1 ELSE created
    /\ task' = [task EXCEPT ![t] = [pc |-> "sent", sess |-> session', res |-> "-"]]
    /\ \E c \in calls : last' = SentEvent(c, session')
    /\ UNCHANGED <<variant, env, client, closed, closer>>

\* A handler call of the sync client up to the blocking request; the calling
\* thread is blocked, so no other call of the program is in progress.
SyncSend(t, calls) ==
    /\ variant = "sync"
    /\ client.state = "ready"
    /\ \A u \in Tasks : task[u].pc # "sent"
    /\ task' = [task EXCEPT ![t] = [pc |-> "sent", sess |-> session, res |-> "-"]]
    /\ \E c \in calls : last' = SentEvent(c, session)
    /\ UNCHANGED <<variant, env, client, session, created, closed, closer>>

\* The rest of the handler call: the response arrives or the transport fails,
\* _request maps it, the handler validates what _request returned.
Complete(t, resp, raw) ==
    LET out == HandlerOutcome(raw) IN
    /\ task[t].pc = "sent"
    /\ task' = [task EXCEPT ![t] = [pc |-> "done", sess |-> NoSession,
                                    res |-> IF out.exc = "" THEN "ok" ELSE "err"]]
    /\ last' = ResultEvent(resp, raw, out)
    /\ UNCHANGED <<variant, env, client, session, created, closed, closer>>

----
(* close() *)

\* close() finds an open session: it is closed, and close() suspends until
\* the connector has released its connections.
CloseBegin ==
    /\ variant = "async"
    /\ client.state = "ready"
    /\ CloseNeeded(session, closed)
    /\ closed' = SessionClose(closed, session)
    /\ closer' = closer \cup {session}
    /\ last' = CloseEvent(session)
    /\ UNCHANGED <<variant, env, client, session, created, task, block, pending, caught>>

\* close() finds no session, or a closed one, and returns.
CloseNoop ==
    /\ variant = "async"
    /\ client.state = "ready"
    /\ ~CloseNeeded(session, closed)
    /\ last' = CloseEvent(NoSession)
    /\ UNCHANGED <<variant, env, client, session, created, closed, task, closer,
                   block, pending, caught>>

\* A suspended close() resumes and returns.
CloseEnd ==
    /\ \E s \in closer : closer' = closer \ {s}
    /\ UNCHANGED <<variant, env, client, session, created, closed, task,
                   block, pending, caught, last>>

----------------------------------------------------------------------------------------------------------------------------------------------------
(* One caller, either client, every call and every response *)

Caller == 1

InitCommon ==
    /\ env \in EnvValues
    /\ client = Unbuilt
    /\ session = NoSession
    /\ created = 0
    /\ closed = {}
    /\ task = [t \in Tasks |-> Idle]
    /\ closer = {}
    /\ block = "outside"
    /\ pending = ""
    /\ caught = ""
    /\ last = NoEvent

Init == variant \in {"sync", "async"} /\ InitCommon

SyncCall == SyncSend(Caller, Calls) /\ UNCHANGED <<block, pending, caught>>

AsyncCall == AsyncSend(Caller, Calls) /\ UNCHANGED <<block, pending, caught>>

CallEnds ==
    /\ \E resp \in Responses : \E raw \in RequestOutcomes(variant, resp) :
         Complete(Caller, resp, raw)
    /\ UNCHANGED <<block, pending, caught>>

Next ==
    \/ Construct
    \/ SyncCall
    \/ AsyncCall
    \/ CallEnds
    \/ CloseBegin
    \/ CloseNoop
    \/ CloseEnd

Spec == Init /\ [][Next]_vars

----------------------------------------------------------------------------
(* Concurrent tasks on one async client *)

ConcCalls ==
    { c \in Calls : c.model = "m1" /\ c.kwargs = EmptyDict /\ c.prompt \in {"", "p2"}
                    /\ Len(c.payload.messages) = 1 }

ConcResponses ==
    { HttpResponse(200, GoodBody), HttpResponse(500, Body("html", "-", "-", "-")),
      TransportFailure("reset"), TransportFailure("timeout") }

InitConc == variant = "async" /\ InitCommon

TaskSends(t) == AsyncSend(t, ConcCalls) /\ UNCHANGED <<block, pending, caught>>

TaskCompletes(t) ==
    /\ \E resp \in ConcResponses : \E raw \in RequestOutcomes(variant, resp) :
         Complete(t, resp, raw)
    /\ UNCHANGED <<block, pending, caught>>

NextConc ==
    \/ Construct
    \/ \E t \in Tasks : TaskSends(t)
    \/ \E t \in Tasks : TaskCompletes(t)
    \/ CloseBegin
    \/ CloseNoop
    \/ CloseEnd

SpecConc == InitConc /\ [][NextConc]_vars

----------------------------------------------------------------------------
(* The client as a scoped resource: async with client: ... *)

\* __aexit__ returns None: the exception of the block is not suppressed.
AExitSuppresses == FALSE

Propagated(err) == IF AExitSuppresses THEN "" ELSE err

\* __aenter__
Enter ==
    /\ variant = "async"
    /\ client.state = "ready"
    /\ block \in {"outside", "left"}
    /\ block' = "inside"
    /\ pending' = ""
    /\ caught' = ""
    /\ UNCHANGED <<variant, env, client, session, created, closed, task, closer, last>>

\* The body of the block awaits its handler calls one after another.
BlockCall ==
    /\ block = "inside"
    /\ AsyncSend(Caller, Calls)
    /\ UNCHANGED <<block, pending, caught>>

\* A call of the body ends; an error it raises leaves the block.
BlockCallEnds ==
    /\ block = "inside"
    /\ \E resp \in Responses : \E raw \in RequestOutcomes(variant, resp) :
         /\ Complete(Caller, resp, raw)
         /\ LET out == HandlerOutcome(raw) IN
            IF out.exc = ""
            THEN UNCHANGED <<block, pending>>
            ELSE block' = "raising" /\ pending' = out.exc
    /\ UNCHANGED caught

\* An explicit await client.close() in the body.
BlockClose ==
    /\ block = "inside"
    /\ task[Caller].pc # "sent"
    /\ IF CloseNeeded(session, closed)
       THEN closed' = SessionClose(closed, session) /\ last' = CloseEvent(session)
       ELSE closed' = closed /\ last' = CloseEvent(NoSession)
    /\ UNCHANGED <<variant, env, client, session, created, task, closer,
                   block, pending, caught>>

\* __aexit__ is entered, at the end of the body or with its exception, and
\* awaits close(); a close() with nothing to close returns at once.
AExit ==
    /\ \/ block = "inside" /\ task[Caller].pc # "sent"
       \/ block = "raising"
    /\ IF CloseNeeded(session, closed)
       THEN /\ closed' = SessionClose(closed, session)
            /\ closer' = closer \cup {session}
            /\ last' = CloseEvent(session)
            /\ block' = "aexit"
            /\ caught' = caught
       ELSE /\ closed' = closed
            /\ closer' = closer
            /\ last' = CloseEvent(NoSession)
            /\ block' = "left"
            /\ caught' = Propagated(pending)
    /\ UNCHANGED <<variant, env, client, session, created, task, pending>>

\* close() returns, __aexit__ returns, the block is left.
AExitReturn ==
    /\ block = "aexit"
    /\ closer # {}
    /\ closer' = {}
    /\ block' = "left"
    /\ caught' = Propagated(pending)
    /\ UNCHANGED <<variant, env, client, session, created, closed, task, pending, last>>

NextScoped ==
    \/ Construct
    \/ Enter
    \/ BlockCall
    \/ BlockCallEnds
    \/ BlockClose
    \/ AExit
    \/ AExitReturn

SpecScoped == InitConc /\ [][NextScoped]_vars

----------------------------------------------------------------------------
(* Properties of the request executor and of construction (Spec) *)

\* C1: a response with status 401, 403 or 404 makes _request of either
\* client raise AuthenticationError, PermissionError or NotFoundError
\* respectively, whatever body it carries, and _request returns no decoded
\* body for it.
C1_StatusErrors ==
    (last.ev = "result" /\ last.resp.type = "http"
        /\ last.resp.status \in {401, 403, 404})
    => /\ last.raw.data = NoBody
       /\ last.resp.status = 401 => last.raw.exc = "AuthenticationError"
       /\ last.resp.status = 403 => last.raw.exc = "PermissionError"
       /\ last.resp.status = 404 => last.raw.exc = "NotFoundError"

\* A 403 carrying a well-formed JSON body reached the async client.
C1_Witness ==
    /\ variant = "async"
    /\ last.ev = "result"
    /\ last.resp = HttpResponse(403, GoodBody)
    /\ last.raw.exc = "PermissionError"

\* C2 as stated: every status >= 300 other than 401, 403, 404 makes _request
\* raise the generic APIError, and a decoded body is returned only for a
\* status in [200,300).
C2_Original ==
    (last.ev = "result" /\ last.resp.type = "http")
    => /\ (last.resp.status >= 300 /\ last.resp.status \notin {401, 403, 404})
            => last.raw.exc = "APIError"
       /\ last.raw.exc = ""
            => (200 <= last.resp.status /\ last.resp.status < 300)

\* C2 as amended: every status in [400,600) other than 401, 403, 404 makes
\* _request of either client raise the generic APIError; a decoded body is
\* returned only for a status outside [400,600); a 3xx response with a
\* well-formed JSON body is not an error, its decoded body is returned.
C2_Amended ==
    (last.ev = "result" /\ last.resp.type = "http")
    => /\ (400 <= last.resp.status /\ last.resp.status < 600
             /\ last.resp.status \notin {401, 403, 404})
            => last.raw.exc = "APIError"
       /\ last.raw.exc = ""
            => ~(400 <= last.resp.status /\ last.resp.status < 600)
       /\ (300 <= last.resp.status /\ last.resp.status < 400
             /\ last.resp.body.fmt = "json")
            => last.raw = Returned(last.resp.body)

\* A 429 made the sync client raise the generic APIError.
C2_Witness ==
    /\ variant = "sync"
    /\ last.ev = "result"
    /\ last.resp.type = "http"
    /\ last.resp.status = 429
    /\ last.raw.exc = "APIError"

\* C3: a transport failure with no HTTP response makes _request of either
\* client raise the generic APIError.
C3_TransportErrors ==
    (last.ev = "result" /\ last.resp.type = "transport")
    => last.raw.exc = "APIError"

\* C4: construction succeeds whenever a non-empty key is available, as the
\* parameter or in XIOCA_API_KEY, and stores the parameter if one is given,
\* else the environment's value; with no key anywhere it raises
\* AuthenticationError and creates no session and no handler.
C4_Construction ==
    client.state # "unbuilt"
    => IF Truthy(client.arg) \/ Truthy(env)
       THEN /\ client.state = "ready"
            /\ client.api_key = (IF Truthy(client.arg) THEN client.arg ELSE env)
       ELSE /\ client.state = "failed"
            /\ client.error = "AuthenticationError"
            /\ client.handlers = {}
            /\ session = NoSession
            /\ created = 0

\* C8: a returned body that misses a required field, has a field of the
\* wrong type or a role outside assistant/user/system makes the handler call
\* fail with an error of the APIError taxonomy, and so does every other
\* failure of a handler call.
C8_ValidationInTaxonomy ==
    last.ev = "result"
    => /\ (last.raw.exc = ""
             /\ (\/ last.raw.data.id # "str"
                 \/ last.raw.data.created # "int"
                 \/ last.raw.data.role \notin {"assistant", "user", "system"}))
            => last.out.exc # ""
       /\ last.out.exc # "" => IsAPIError(last.out.exc)

\* C9: images.generate sends a body whose messages is exactly the one user
\* message holding the prompt and whose model is the given model, with the
\* extra options beside them, and nothing else.
C9_ImagePayload ==
    (last.ev = "sent" /\ last.call.op = "images")
    => /\ DOMAIN last.call.payload = {"model", "messages"} \cup DOMAIN last.call.kwargs
       /\ last.call.payload.model = last.call.model
       /\ last.call.payload.messages
            = <<[role |-> "user", content |-> last.call.prompt]>>
       /\ \A k \in DOMAIN last.call.kwargs \ {"model", "messages"} :
            last.call.payload[k] = last.call.kwargs[k]

----------------------------------------------------------------------------
(* Properties of the async session (SpecConc) *)

\* C5: as long as no session of the client has been closed, concurrent
\* handler calls create the session once and all of them use it; a call that
\* completes leaves the other calls and the session as they are.
C5_SharedSessionOnce ==
    [][ /\ closed' = {}
            => /\ created' <= 1
               /\ \A t \in Tasks : task'[t].pc = "sent"
                    => task'[t].sess = 1 /\ session' = 1
        /\ \A t \in Tasks : (task[t].pc = "sent" /\ task'[t].pc = "done")
            => /\ \A u \in Tasks \ {t} : task'[u] = task[u]
               /\ session' = session
               /\ closed' = closed
               /\ task'[t].res \in {"ok", "err"} ]_vars

\* Two calls are in flight at once on the one session.
C5_Witness ==
    /\ created = 1
    /\ closed = {}
    /\ task[1].pc = "sent" /\ task[1].sess = 1
    /\ task[2].pc = "sent" /\ task[2].sess = 1

\* C6: a close() that finds an open session closes it; the next request
\* creates a new session in place of a closed one and is sent over the
\* session the client then holds, which is open.
C6_CloseThenNewSession ==
    [][ /\ \A s \in closer' \ closer :
               s = session /\ s \notin closed /\ s \in closed' /\ session' = session
        /\ \A t \in Tasks : (task[t].pc # "sent" /\ task'[t].pc = "sent")
            => /\ task'[t].sess = session'
               /\ session' \notin closed'
               /\ session \in closed
                    => session' = created + 1 /\ created' = created + 1 ]_vars

\* A request is in flight on the second session after the first was closed.
C6_Witness ==
    /\ 1 \in closed
    /\ session = 2
    /\ 2 \notin closed
    /\ \E t \in Tasks : task[t].pc = "sent" /\ task[t].sess = 2

\* C10: at any time every open session the client has created is the one it
\* holds, so at most one is open; a session is created only when the client
\* holds none or a closed one.
C10_OneOpenSession ==
    [][ /\ created' # created => (session = NoSession \/ session \in closed)
        /\ \A s \in 1..created' : s \notin closed' => s = session' ]_vars

\* A request is still in flight on a closed session while the client holds a
\* new, open one.
C10_Witness ==
    /\ created >= 2
    /\ session = created
    /\ session \notin closed
    /\ \E t \in Tasks : task[t].pc = "sent" /\ task[t].sess \in closed

----------------------------------------------------------------------------
(* Properties of the scoped block (SpecScoped) *)

\* C7: when the block has been left, close() has run, the client holds no
\* open session, and the error raised inside the block, if any, has reached
\* the caller.
C7_ScopedClose ==
    block = "left"
    => /\ last.ev = "close"
       /\ closer = {}
       /\ session = NoSession \/ session \in closed
       /\ caught = pending

\* The block was left by a PermissionError and its session is closed.
C7_Witness ==
    /\ block = "left"
    /\ pending = "PermissionError"
    /\ caught = "PermissionError"
    /\ session # NoSession
    /\ session \in closed

====
